---------------------------- MODULE Spec2Model ----------------------------
(***************************************************************************)
(* Hybrid search subsystem of RapidQuest.                                  *)
(*                                                                         *)
(* The repository holds two deployments of the search back end:            *)
(*   - the document-level one: SearchService of                            *)
(*     backend/src/search-service.js over Database of unnamed/part_002     *)
(*     (one embedding per document, table "documents");                    *)
(*   - the chunk-level one: SearchService of unnamed/part_003 over         *)
(*     DatabaseService of backend/src/database.js (tables "documents" and  *)
(*     "document_chunks"), reached through the routes of unnamed/part_005. *)
(* A process runs one of the two; the variable "variant" says which.       *)
(* Spec is the two deployments serving uploads and searches; SpecLexical   *)
(* is the chunk-level one without an embedding provider over one long      *)
(* document; SpecChunking is the calls of the two chunkers                 *)
(* (DocumentProcessor.splitIntoChunks of unnamed/part_004 and              *)
(* SearchService.splitTextIntoChunks); SpecSimilarity is the calls of      *)
(* SearchService.cosineSimilarity; SpecExcerpt and SpecRelevance are the   *)
(* calls of createExcerpt and calculateRelevanceScore of unnamed/part_003; *)
(* SpecTermination is the calls of splitIntoChunks with any overlap;       *)
(* SpecRequests is the chunk-level deployment with one step for every      *)
(* await of an upload and of a search, so that requests interleave, and    *)
(* SpecUploads is its uploads alone.                                       *)
(*                                                                         *)
(* Text is modelled as a sequence of one-character strings, so that the    *)
(* string functions of the code (split, toLowerCase, includes, RegExp,     *)
(* JSON.stringify, JSON.parse, substring) are computed as the code         *)
(* computes them.  Similarities and relevance scores are kept exact (as    *)
(* fractions and as the integer the code rounds to); floating-point        *)
(* rounding error is not modelled.                                         *)
(***************************************************************************)
EXTENDS Integers, Sequences, FiniteSets, TLC

VARIABLES
    variant,          \* "doc" or "chunk": which deployment this process runs
    provider,         \* an embedding provider is configured (OPENAI_API_KEY usable)
    now,              \* the latest timestamp the clock has given a row
    documents,        \* doc variant: table documents, in insertion (id) order
    bDocuments,       \* chunk variant: number of rows of table documents
    document_chunks,  \* chunk variant: table document_chunks, in insertion order
    requests,         \* chunk variant: the requests in flight, each at its await
    last              \* the last request served, with its inputs and its outcome

vars ==
    <<variant, provider, now, documents, bDocuments, document_chunks, requests, last>>

-----------------------------------------------------------------------------
(* Bounds of the model *)

MaxDocs == 2      \* rows of a documents table
MaxChunks == 2    \* rows of document_chunks
MaxLimit == 2     \* the caller-supplied limit ranges over 0..MaxLimit
MaxTextLen == 5   \* characters of a text handed to a chunker
MaxChunkSize == 4 \* the chunkSize handed to a chunker ranges over 1..MaxChunkSize
MaxDim == 2       \* components of a vector handed to cosineSimilarity
MaxComponent == 2 \* a component of such a vector ranges over -1..MaxComponent

-----------------------------------------------------------------------------
(* Optional values: null / undefined against a value *)

None == [some |-> FALSE, val |-> <<>>]
Some(v) == [some |-> TRUE, val |-> v]

Min(a, b) == IF a < b THEN a ELSE b
Max(a, b) == IF a > b THEN a ELSE b
Abs(a) == IF a < 0 THEN 0 - a ELSE a
Range(s) == {s[i] : i \in 1..Len(s)}

-----------------------------------------------------------------------------
(* JavaScript string functions, on sequences of characters *)

Digits == <<"0", "1", "2", "3", "4", "5", "6", "7", "8", "9">>

\* \s of a regular expression
IsSpace(c) == c \in {" ", "\t", "\n", "\r"}

\* \w of a regular expression
IsWordChar(c) == c \in {"a", "b", "A", "B", "_"} \cup Range(Digits)

LowerChar(c) ==
    IF c = "A" THEN "a" ELSE IF c = "B" THEN "b" ELSE IF c = "T" THEN "t" ELSE c

toLowerCase(s) == [i \in 1..Len(s) |-> LowerChar(s[i])]

\* s.substring(from, to), 0-based, to exclusive
substring(s, from, to) ==
    LET f == Max(0, Min(from, Len(s)))
        t == Max(0, Min(to, Len(s)))
    IN  SubSeq(s, Min(f, t) + 1, Max(f, t))

\* s.indexOf(sub): 0-based index of the first occurrence, -1 when there is none
indexOf(s, sub) ==
    LET hits == {i \in 0..(Len(s) - Len(sub)) : SubSeq(s, i + 1, i + Len(sub)) = sub}
    IN  IF hits = {} THEN 0 - 1 ELSE CHOOSE i \in hits : \A j \in hits : i <= j

includes(s, sub) == indexOf(s, sub) >= 0

RECURSIVE trimStart(_)
trimStart(s) == IF s # <<>> /\ IsSpace(Head(s)) THEN trimStart(Tail(s)) ELSE s

RECURSIVE trimEnd(_)
trimEnd(s) ==
    IF s # <<>> /\ IsSpace(s[Len(s)]) THEN trimEnd(SubSeq(s, 1, Len(s) - 1)) ELSE s

trim(s) == trimEnd(trimStart(s))

\* s.split(/\s+/): a leading or trailing run of whitespace gives an empty first or
\* last element, and "" gives [""]
RECURSIVE splitWs(_, _, _)
splitWs(s, cur, inRun) ==
    IF s = <<>> THEN <<cur>>
    ELSE IF IsSpace(Head(s))
         THEN IF inRun THEN splitWs(Tail(s), cur, TRUE)
                       ELSE <<cur>> \o splitWs(Tail(s), <<>>, TRUE)
         ELSE splitWs(Tail(s), Append(cur, Head(s)), FALSE)

split(s) == splitWs(s, <<>>, FALSE)

\* words.join(' ')
RECURSIVE join(_)
join(words) ==
    IF words = <<>> THEN <<>>
    ELSE IF Len(words) = 1 THEN words[1]
    ELSE words[1] \o <<" ">> \o join(Tail(words))

\* new RegExp(pattern) throws a SyntaxError on a group that is never closed
RegExpThrows(pattern) == "(" \in Range(pattern)

\* a \b assertion holds between positions i-1 and i of text (1-based)
AtWordBoundary(text, i) ==
    LET before == i > 1 /\ i - 1 <= Len(text) /\ IsWordChar(text[i - 1])
        after == i >= 1 /\ i <= Len(text) /\ IsWordChar(text[i])
    IN  before # after

\* the literal word matches text at position i (1-based)
MatchesAt(text, word, i, wholeWord) ==
    /\ i + Len(word) - 1 <= Len(text)
    /\ toLowerCase(SubSeq(text, i, i + Len(word) - 1)) = toLowerCase(word)
    /\ wholeWord => AtWordBoundary(text, i) /\ AtWordBoundary(text, i + Len(word))

\* text.match(regex).length for a global regex of a literal word: the matches are
\* found left to right and do not overlap
RECURSIVE matchCountFrom(_, _, _, _)
matchCountFrom(text, word, i, wholeWord) ==
    IF word = <<>> \/ i + Len(word) - 1 > Len(text) THEN 0
    ELSE IF MatchesAt(text, word, i, wholeWord)
         THEN 1 + matchCountFrom(text, word, i + Len(word), wholeWord)
         ELSE matchCountFrom(text, word, i + 1, wholeWord)

matchCount(text, word, wholeWord) == matchCountFrom(text, word, 1, wholeWord)

-----------------------------------------------------------------------------
(* JSON text of a vector of integers *)

RECURSIVE IntToChars(_)
IntToChars(n) ==
    IF n < 0 THEN <<"-">> \o IntToChars(0 - n)
    ELSE IF n < 10 THEN <<Digits[n + 1]>>
    ELSE IntToChars(n \div 10) \o <<Digits[(n % 10) + 1]>>

RECURSIVE joinNumbers(_)
joinNumbers(v) ==
    IF v = <<>> THEN <<>>
    ELSE IF Len(v) = 1 THEN IntToChars(v[1])
    ELSE IntToChars(v[1]) \o <<",">> \o joinNumbers(Tail(v))

\* JSON.stringify(array of numbers)
JSONstringify(v) == <<"[">> \o joinNumbers(v) \o <<"]">>

\* Array.prototype.toString(): what the sqlite3 driver binds for an array parameter
ArrayToString(v) == joinNumbers(v)

IsDigit(c) == c \in Range(Digits)

DigitValue(c) == (CHOOSE i \in 1..10 : Digits[i] = c) - 1

RECURSIVE DigitsToNat(_, _)
DigitsToNat(cs, acc) ==
    IF cs = <<>> THEN acc ELSE DigitsToNat(Tail(cs), 10 * acc + DigitValue(Head(cs)))

\* a JSON integer: -? (0 | [1-9][0-9]*)
IsJSONInt(cs) ==
    LET ds == IF cs # <<>> /\ Head(cs) = "-" THEN Tail(cs) ELSE cs
    IN  /\ ds # <<>>
        /\ \A i \in 1..Len(ds) : IsDigit(ds[i])
        /\ Len(ds) > 1 => ds[1] # "0"

JSONInt(cs) ==
    IF Head(cs) = "-" THEN 0 - DigitsToNat(Tail(cs), 0) ELSE DigitsToNat(cs, 0)

\* the elements of a comma-separated list
RECURSIVE splitComma(_, _)
splitComma(s, cur) ==
    IF s = <<>> THEN <<cur>>
    ELSE IF Head(s) = "," THEN <<cur>> \o splitComma(Tail(s), <<>>)
    ELSE splitComma(Tail(s), Append(cur, Head(s)))

\* JSON.parse(text): ok = FALSE when it throws; isArray and items describe the value
JSONparse(s) ==
    IF Len(s) >= 2 /\ s[1] = "[" /\ s[Len(s)] = "]"
    THEN LET inner == SubSeq(s, 2, Len(s) - 1)
             parts == IF inner = <<>> THEN <<>> ELSE splitComma(inner, <<>>)
         IN  IF \A i \in 1..Len(parts) : IsJSONInt(parts[i])
             THEN [ok |-> TRUE, isArray |-> TRUE,
                   items |-> [i \in 1..Len(parts) |-> JSONInt(parts[i])]]
             ELSE [ok |-> FALSE, isArray |-> FALSE, items |-> <<>>]
    ELSE IF IsJSONInt(s) \/ s = <<"n", "u", "l", "l">>
         THEN [ok |-> TRUE, isArray |-> FALSE, items |-> <<>>]
         ELSE [ok |-> FALSE, isArray |-> FALSE, items |-> <<>>]

-----------------------------------------------------------------------------
(* Similarities: the number num / sqrt(sq), kept exact *)

SimZero == [num |-> 0, sq |-> 1]

\* a > b for two similarities
SimGt(a, b) ==
    LET l == a.num * a.num * b.sq
        r == b.num * b.num * a.sq
    IN  IF a.num >= 0 /\ b.num >= 0 THEN l > r
        ELSE IF a.num >= 0 THEN TRUE
        ELSE IF b.num >= 0 THEN FALSE
        ELSE l < r

SimEq(a, b) == ~SimGt(a, b) /\ ~SimGt(b, a)

\* the similarity is greater than p / q, for p, q > 0
SimGtFraction(a, p, q) == a.num > 0 /\ q * q * a.num * a.num > p * p * a.sq

RECURSIVE SumTo(_, _)
SumTo(f, n) == IF n = 0 THEN 0 ELSE f[n] + SumTo(f, n - 1)

Sum(seq) == SumTo(seq, Len(seq))

\* the loop running over the shorter vector, the length test left out
cosineSimilarityTruncating(vecA, vecB) ==
    IF ~vecA.some \/ ~vecB.some \/ vecA.val = <<>> \/ vecB.val = <<>> THEN SimZero
    ELSE LET a == JSONparse(vecA.val)
             b == JSONparse(vecB.val)
         IN  IF ~a.ok \/ ~b.ok \/ ~a.isArray \/ ~b.isArray THEN SimZero
             ELSE LET n == Min(Len(a.items), Len(b.items))
                      dotProduct == Sum([i \in 1..n |-> a.items[i] * b.items[i]])
                      normA == Sum([i \in 1..n |-> a.items[i] * a.items[i]])
                      normB == Sum([i \in 1..n |-> b.items[i] * b.items[i]])
                  IN  IF normA * normB = 0 THEN SimZero
                      ELSE [num |-> dotProduct, sq |-> normA * normB]

\* the denominator taken from vectorA alone: Math.sqrt(normA) * Math.sqrt(normA)
cosineSimilarityProjecting(vecA, vecB) ==
    IF ~vecA.some \/ ~vecB.some \/ vecA.val = <<>> \/ vecB.val = <<>> THEN SimZero
    ELSE LET a == JSONparse(vecA.val)
             b == JSONparse(vecB.val)
         IN  IF ~a.ok \/ ~b.ok THEN SimZero
             ELSE IF ~a.isArray \/ ~b.isArray \/ Len(a.items) # Len(b.items) THEN SimZero
             ELSE LET n == Len(a.items)
                      dotProduct == Sum([i \in 1..n |-> a.items[i] * b.items[i]])
                      normA == Sum([i \in 1..n |-> a.items[i] * a.items[i]])
                  IN  IF normA = 0 THEN SimZero
                      ELSE [num |-> dotProduct, sq |-> normA * normA]

\* SearchService.cosineSimilarity(vecA, vecB), on two optional JSON texts
cosineSimilarity(vecA, vecB) ==
    IF ~vecA.some \/ ~vecB.some \/ vecA.val = <<>> \/ vecB.val = <<>> THEN SimZero
    ELSE LET a == JSONparse(vecA.val)
             b == JSONparse(vecB.val)
         IN  IF ~a.ok \/ ~b.ok THEN SimZero
             ELSE IF ~a.isArray \/ ~b.isArray \/ Len(a.items) # Len(b.items) THEN SimZero
             ELSE LET n == Len(a.items)
                      dotProduct == Sum([i \in 1..n |-> a.items[i] * b.items[i]])
                      normA == Sum([i \in 1..n |-> a.items[i] * a.items[i]])
                      normB == Sum([i \in 1..n |-> b.items[i] * b.items[i]])
                  IN  IF normA * normB = 0 THEN SimZero
                      ELSE [num |-> dotProduct, sq |-> normA * normB]

-----------------------------------------------------------------------------
(* Ordering *)

\* Array.prototype.sort with a comparator that puts the greater first: stable.
\* gt[i][j] says that the comparator puts seq[i] before seq[j]
StableSortDesc(seq, gt) ==
    LET n == Len(seq)
        pos(i) == 1 + Cardinality({j \in 1..n :
                        gt[j][i] \/ (~gt[i][j] /\ j < i)})
    IN  [k \in 1..n |-> seq[CHOOSE i \in 1..n : pos(i) = k]]

\* SQL ORDER BY ... DESC: every order of the rows in which no row precedes a
\* greater one; the order of rows with equal keys is not specified
\* gt[i][j] says that the key of rows[i] is greater than that of rows[j]
OrderByDesc(rows, gt) ==
    LET n == Len(rows)
        perms == {p \in [1..n -> 1..n] : \A i, j \in 1..n : i # j => p[i] # p[j]}
    IN  {[k \in 1..n |-> rows[p[k]]] : p \in
            {q \in perms : \A i, j \in 1..n : i < j => ~gt[q[j]][q[i]]}}

\* array.slice(0, limit) and SQL LIMIT, for limit >= 0
slice(seq, limit) == SubSeq(seq, 1, Min(limit, Len(seq)))

-----------------------------------------------------------------------------
(* Inputs: the texts, queries and embedding vectors the model draws from *)

TextAbAb == <<"a", "b", " ", "a", "b">>
TextAabAab == <<"A", "a", "b", " ", "a", "a", "b">>

\* contents of documents and of chunks
Texts == {TextAbAb, TextAabAab}

QueryEmpty == <<>>
QueryA == <<"a">>
QueryAab == <<"a", "a", "b">>
QueryParen == <<"(", "a", "b">>

Queries == {QueryEmpty, QueryA, QueryAab, QueryParen}

\* The embedding provider is outside the repository.  It is taken to answer a call
\* that succeeds with a vector that depends on the text alone: here the numbers of
\* a's and of b's in it (the empty text gets the zero vector).
EmbeddingOf(text) ==
    <<Cardinality({i \in 1..Len(text) : LowerChar(text[i]) = "a"}),
      Cardinality({i \in 1..Len(text) : LowerChar(text[i]) = "b"})>>

Limits == 0..MaxLimit

-----------------------------------------------------------------------------
(* Document-level deployment: backend/src/search-service.js over unnamed/part_002 *)

\* SearchService.generateEmbedding(text): null without a provider or when the call
\* fails, else the JSON text of the vector
generateEmbedding(text) ==
    IF ~provider THEN {None} ELSE {None, Some(JSONstringify(EmbeddingOf(text)))}

\* SearchService.splitTextIntoChunks(text, chunkSize, overlap)
RECURSIVE splitTextIntoChunksFrom(_, _, _, _)
splitTextIntoChunksFrom(words, i, chunkSize, overlap) ==
    IF i >= Len(words) THEN <<>>
    ELSE LET chunk == join(SubSeq(words, i + 1, Min(i + chunkSize, Len(words))))
             rest == splitTextIntoChunksFrom(words, i + chunkSize - overlap, chunkSize, overlap)
         IN  IF trim(chunk) # <<>> THEN <<chunk>> \o rest ELSE rest

\* the slice taking one word more: words.slice(i, i + chunkSize + 1)
splitTextIntoChunksInclusive(text, chunkSize, overlap) ==
    splitTextIntoChunksFrom(split(text), 0, chunkSize + 1, overlap + 1)

splitTextIntoChunks(text, chunkSize, overlap) ==
    splitTextIntoChunksFrom(split(text), 0, chunkSize, overlap)

\* the chunk size and overlap textSearch passes
TextChunkSize == 500
TextOverlap == 50

\* the rows Database.getAllDocuments may resolve to: the columns it selects (the
\* embedding column is not among them), ordered by uploaded_at DESC
getAllDocuments ==
    LET rows == [i \in 1..Len(documents) |->
                    [id |-> documents[i].id, content |-> documents[i].content,
                     uploadedAt |-> documents[i].uploaded_at]]
        later == [i \in 1..Len(rows) |-> [j \in 1..Len(rows) |->
                    rows[i].uploadedAt > rows[j].uploadedAt]]
    IN  OrderByDesc(rows, later)

\* a storage read: rejected (None) or resolved to rows
ReadDocuments == {None} \cup {Some(rows) : rows \in getAllDocuments}

\* doc.embedding on a row read from storage: undefined when the column was not selected
RowEmbedding(doc) == IF "embedding" \in DOMAIN doc THEN doc.embedding ELSE None

\* the query words textSearch scores with
TextQueryWords(query) == SelectSeq(split(toLowerCase(query)), LAMBDA w : Len(w) > 2)

\* the score textSearch gives one chunk
TextChunkScore(chunk, queryWords) ==
    Sum([k \in 1..Len(queryWords) |-> matchCount(chunk, queryWords[k], TRUE)])

\* the overall score textSearch gives one document: the sum over its matched chunks
TextDocScore(content, queryWords) ==
    LET textChunks == splitTextIntoChunks(toLowerCase(content), TextChunkSize, TextOverlap)
    IN  Sum([c \in 1..Len(textChunks) |-> TextChunkScore(textChunks[c], queryWords)])

\* textSearch builds a RegExp from each query word for each chunk of each document
\* with content: it throws when one of them is no regular expression
TextSearchThrows(query, rows) ==
    /\ \E i \in 1..Len(rows) :
          /\ rows[i].content # <<>>
          /\ splitTextIntoChunks(toLowerCase(rows[i].content), TextChunkSize, TextOverlap) # <<>>
    /\ \E k \in 1..Len(TextQueryWords(query)) : RegExpThrows(TextQueryWords(query)[k])

\* a whole number as a score: n / sqrt(1)
Whole(n) == [num |-> n, sq |-> 1]

SimScoreGt(a, b) == SimGt(a.score, b.score)

\* the comparator (a, b) => b.score - a.score over a result list
BySimScore(results) ==
    [i \in 1..Len(results) |-> [j \in 1..Len(results) |->
        SimScoreGt(results[i], results[j])]]

\* textSearch keeps the first limit results of the sorted list
TextTopUncut(results, limit) == StableSortDesc(results, BySimScore(results))

TextTop(results, limit) == slice(StableSortDesc(results, BySimScore(results)), limit)

\* SearchService.textSearch(query, limit), given what its storage read resolved to
textSearch(query, limit, read) ==
    IF ~read.some THEN [kind |-> "throw", dbError |-> TRUE, results |-> <<>>]
    ELSE IF TextSearchThrows(query, read.val)
    THEN [kind |-> "throw", dbError |-> FALSE, results |-> <<>>]
    ELSE LET queryWords == TextQueryWords(query)
             scored == [i \in 1..Len(read.val) |->
                          [id |-> read.val[i].id,
                           score |-> IF read.val[i].content = <<>> THEN Whole(0)
                                     ELSE Whole(TextDocScore(read.val[i].content,
                                                             queryWords))]]
             results == SelectSeq(scored, LAMBDA r : r.score.num > 0)
         IN  [kind |-> "ok", dbError |-> FALSE, results |-> TextTop(results, limit)]

\* the minimum similarity threshold of semanticSearch, 0.1 = MinSimNum / MinSimDen
MinSimNum == 1
MinSimDen == 10

\* semanticSearch pushes a document when it has an embedding and its similarity is
\* above the threshold
SemanticHitUnfiltered(embedding, similarity) == TRUE

SemanticHit(embedding, similarity) ==
    /\ embedding.some
    /\ embedding.val # <<>>
    /\ SimGtFraction(similarity, MinSimNum, MinSimDen)

\* SearchService.semanticSearch(query, limit), given the query embedding and what
\* its storage read resolved to
semanticSearch(query, limit, queryEmbedding, read) ==
    IF ~provider THEN [kind |-> "throw", dbError |-> FALSE, results |-> <<>>]
    ELSE IF ~queryEmbedding.some \/ queryEmbedding.val = <<>>
    THEN [kind |-> "throw", dbError |-> FALSE, results |-> <<>>]
    ELSE IF ~read.some THEN [kind |-> "throw", dbError |-> TRUE, results |-> <<>>]
    ELSE LET scored == [i \in 1..Len(read.val) |->
                          [id |-> read.val[i].id,
                           emb |-> RowEmbedding(read.val[i]),
                           score |-> cosineSimilarity(queryEmbedding,
                                                      RowEmbedding(read.val[i]))]]
             hits == SelectSeq(scored, LAMBDA r : SemanticHit(r.emb, r.score))
             results == [i \in 1..Len(hits) |-> [id |-> hits[i].id, score |-> hits[i].score]]
         IN  [kind |-> "ok", dbError |-> FALSE,
              results |-> slice(StableSortDesc(results, BySimScore(results)), limit)]

\* what search does when a text search has thrown inside its try block (line 220):
\* it runs textSearch once more and lets that one's error out
SearchFallback(query, limit, dbError) ==
    {[kind |-> IF t.kind = "ok" THEN "ok" ELSE "raise", path |-> "text",
      dbError |-> dbError \/ t.dbError, results |-> t.results] :
        t \in {textSearch(query, limit, r) : r \in ReadDocuments}}

\* the text search of lines 212 and 215
SearchText(query, limit, dbError) ==
    UNION {IF t.kind = "ok"
           THEN {[kind |-> "ok", path |-> "text", dbError |-> dbError,
                  results |-> t.results]}
           ELSE SearchFallback(query, limit, dbError \/ t.dbError) :
             t \in {textSearch(query, limit, r) : r \in ReadDocuments}}

\* SearchService.search(query, limit): the outcomes it may have, given the query
\* embedding the provider call ends with
search(query, limit, queryEmbedding) ==
    IF provider
    THEN UNION {IF s.kind = "ok"
                THEN {[kind |-> "ok", path |-> "semantic", dbError |-> FALSE,
                       results |-> s.results]}
                ELSE SearchText(query, limit, s.dbError) :
                  s \in {semanticSearch(query, limit, queryEmbedding, r) : r \in ReadDocuments}}
    ELSE SearchText(query, limit, FALSE)

\* the timestamps the clock may give the next row of a table: that of the row before
\* it or a later one (only the order of timestamps is ever read)
Stamps(table, clock) == IF table = <<>> THEN {clock} ELSE {clock, clock + 1}

\* A search writes no storage, so one served right after another search reaches only
\* states that the second alone reaches from the state the first was served in: the
\* model serves a search from the states that Init or a storing request left.
Searched == last.op = "search"

\* A call of SearchService.search(query, limit), the query embedding being what
\* generateEmbedding(query) resolves to (GET /search makes this call for a query
\* that is not blank)
Search ==
    /\ variant = "doc"
    /\ ~Searched
    /\ \E query \in Queries, limit \in Limits :
         last' \in {[op |-> "search", query |-> query, limit |-> limit,
                     queryEmbedding |-> e, kind |-> o.kind, path |-> o.path,
                     dbError |-> o.dbError, results |-> o.results] :
                       <<e, o>> \in UNION {{e} \X search(query, limit, e) :
                                             e \in generateEmbedding(query)}}
    /\ UNCHANGED <<variant, provider, now, documents, bDocuments, document_chunks,
                 requests>>

\* POST /upload: generateEmbedding(content), then Database.addDocument
Upload ==
    /\ variant = "doc"
    /\ Len(documents) < MaxDocs
    /\ \E content \in Texts, ok \in BOOLEAN :
         \E embedding \in generateEmbedding(content), t \in Stamps(documents, now) :
            IF ok
            THEN /\ now' = t
                 /\ documents' = Append(documents,
                                        [id |-> Len(documents) + 1, content |-> content,
                                         embedding |-> embedding, uploaded_at |-> t])
                 /\ last' = [op |-> "upload", kind |-> "ok"]
            ELSE /\ UNCHANGED <<now, documents>>
                 /\ last' = [op |-> "upload", kind |-> "raise"]
    /\ UNCHANGED <<variant, provider, bDocuments, document_chunks, requests>>

-----------------------------------------------------------------------------
(* Chunk-level deployment: unnamed/part_003 over backend/src/database.js *)

\* SearchService.generateEmbedding(text) of the chunk-level service: null without a
\* configured key or when the call throws, else the vector
generateEmbeddingChunk(text) ==
    IF ~provider THEN {None} ELSE {None, Some(EmbeddingOf(text))}

\* the largest m in lo..hi with m * m <= n
RECURSIVE IsqrtIn(_, _, _)
IsqrtIn(n, lo, hi) ==
    IF lo >= hi THEN lo
    ELSE LET mid == (lo + hi + 1) \div 2
         IN  IF mid * mid <= n THEN IsqrtIn(n, mid, hi) ELSE IsqrtIn(n, lo, mid - 1)

\* floor(sqrt(n)), for n below 2^31
Isqrt(n) == IsqrtIn(n, 0, Min(n, 46340))

\* the bonus of an exact phrase match and of an adjacent pair of query words
PhraseBonus == 10
ProximityBonus == 2

\* calculateRelevanceScore builds a RegExp from every query word longer than 2
RelevanceThrows(query) ==
    LET queryWords == split(toLowerCase(query))
    IN  \E k \in 1..Len(queryWords) :
           Len(queryWords[k]) > 2 /\ RegExpThrows(queryWords[k])

\* a word-match component that takes a point off for every match
WordContributionNegated(word, contentLower) ==
    IF Len(word) > 2 THEN 0 - matchCount(contentLower, word, FALSE) ELSE 0

\* what one query word adds: the number of matches of new RegExp(word, 'g') in the
\* content when the word is longer than 2 characters.  The regular expression has no
\* \b, so a match inside a longer word counts
WordContribution(word, contentLower) ==
    IF Len(word) > 2 THEN matchCount(contentLower, word, FALSE) ELSE 0

\* what one pair of adjacent query words adds: the bonus when the content includes
\* word + ' ' + nextWord, however often it does
BigramContribution(word, nextWord, contentLower) ==
    IF includes(contentLower, word \o <<" ">> \o nextWord) THEN ProximityBonus ELSE 0

\* the score of calculateRelevanceScore before the length normalization
RelevanceRaw(query, content) ==
    LET queryWords == split(toLowerCase(query))
        contentLower == toLowerCase(content)
        phrase == IF includes(contentLower, toLowerCase(query)) THEN PhraseBonus ELSE 0
        wordMatches == Sum([k \in 1..Len(queryWords) |->
                              WordContribution(queryWords[k], contentLower)])
        proximity == Sum([k \in 1..Len(queryWords) |->
                            IF k < Len(queryWords)
                            THEN BigramContribution(queryWords[k], queryWords[k + 1],
                                                    contentLower)
                            ELSE 0])
    IN  phrase + wordMatches + proximity

\* contentLower.split(/\s+/).length
ContentWords(content) == Len(split(toLowerCase(content)))

\* Math.round(calculateRelevanceScore(query, content) * 100): the relevanceScore of
\* a result, in hundredths.  round(100 r / sqrt(w)) is the largest k with
\* (2k - 1)^2 w <= (200 r)^2
RelevanceScore(query, content) ==
    LET r == RelevanceRaw(query, content)
        w == ContentWords(content)
    IN  (Isqrt((200 * r * 200 * r) \div w) + 1) \div 2

\* what searchBySimilarity passes to SQL: the first EmbeddingPrefix characters of the
\* JSON text, of which INSTR looks for the first KeywordPrefix
EmbeddingPrefix == 100
KeywordPrefix == 20

\* the similarity column of searchBySimilarity, as the fraction num / den:
\* (1 / (1 + |LENGTH(content) - LENGTH(e)|)) * (1 + 0.5 when content holds e's start)
SqlSimilarity(content, e) ==
    LET keyword == toLowerCase(SubSeq(e, 1, Min(KeywordPrefix, Len(e))))
        bonus == includes(toLowerCase(content), keyword)
    IN  [num |-> IF bonus THEN 3 ELSE 2, den |-> 2 * (1 + Abs(Len(content) - Len(e)))]

FractionGt(a, b) == a.num * b.den > b.num * a.den

FractionScoreGt(a, b) == FractionGt(a.score, b.score)

\* the order of rows by their score, greater first
ByFractionScore(rows) ==
    [i \in 1..Len(rows) |-> [j \in 1..Len(rows) |-> FractionScoreGt(rows[i], rows[j])]]

\* document_chunks JOIN documents: the chunk rows whose document row exists
JoinedChunks == SelectSeq(document_chunks, LAMBDA c : c.document_id <= bDocuments)

\* DatabaseService.getAllChunks(limit): the row lists it may resolve to
getAllChunks(limit) ==
    LET rows == [i \in 1..Len(JoinedChunks) |->
                    [id |-> JoinedChunks[i].id, content |-> JoinedChunks[i].content,
                     created_at |-> JoinedChunks[i].created_at]]
        later == [i \in 1..Len(rows) |-> [j \in 1..Len(rows) |->
                    rows[i].created_at > rows[j].created_at]]
    IN  {slice(r, limit) : r \in OrderByDesc(rows, later)}

\* the SQL LIMIT of searchBySimilarity
SimilarityLimit(rows, limit) == slice(rows, limit)

\* DatabaseService.searchBySimilarity(embedding, limit): the row lists it may resolve
\* to.  Every joined chunk row is a candidate; the embedding column is not read
searchBySimilarity(embedding, limit) ==
    IF embedding = <<>> THEN getAllChunks(limit)
    ELSE LET queryEmbedding == substring(embedding, 0, EmbeddingPrefix)
             rows == [i \in 1..Len(JoinedChunks) |->
                        [id |-> JoinedChunks[i].id, content |-> JoinedChunks[i].content,
                         score |-> SqlSimilarity(JoinedChunks[i].content, queryEmbedding)]]
         IN  {SimilarityLimit(r, limit) : r \in OrderByDesc(rows, ByFractionScore(rows))}

\* the score basicContentSearch gives a chunk: the query words its content includes
BasicScore(query, content) ==
    LET queryWords == split(toLowerCase(query))
    IN  Sum([k \in 1..Len(queryWords) |->
               IF includes(toLowerCase(content), queryWords[k]) THEN 1 ELSE 0])

\* the multiple of limit basicContentSearch asks getAllChunks for
BasicFetchFactor == 3

\* SearchService.basicContentSearch(query, limit): the lists it may resolve to; a
\* storage error is caught and gives the empty list (dbError says that it happened)
basicContentSearch(query, limit) ==
    {[dbError |-> TRUE, results |-> <<>>]} \cup
    {LET scored == [i \in 1..Len(chunks) |->
                      [id |-> chunks[i].id, content |-> chunks[i].content,
                       score |-> [num |-> BasicScore(query, chunks[i].content), den |-> 1]]]
         found == SelectSeq(scored, LAMBDA c : c.score.num > 0)
     IN  [dbError |-> FALSE,
          results |-> slice(StableSortDesc(found, ByFractionScore(found)), limit)] :
        chunks \in getAllChunks(limit * BasicFetchFactor)}

RelevanceGt(a, b) == a.relevanceScore > b.relevanceScore

\* the comparator (a, b) => b.relevanceScore - a.relevanceScore over a result list
ByRelevance(results) ==
    [i \in 1..Len(results) |-> [j \in 1..Len(results) |->
        RelevanceGt(results[i], results[j])]]

\* the end of search: the results enhanced with their relevance score and sorted by it
Enhance(query, results) ==
    LET enhancedResults ==
            [i \in 1..Len(results) |->
                [id |-> results[i].id, score |-> results[i].score,
                 relevanceScore |-> RelevanceScore(query, results[i].content)]]
    IN  StableSortDesc(enhancedResults, ByRelevance(enhancedResults))

Ids(rows) == [i \in 1..Len(rows) |-> rows[i].id]

\* SearchService.search(query, limit) of the chunk-level service: the outcomes it may
\* have, given the query embedding the provider call ends with
searchChunk(query, limit, queryEmbedding) ==
    LET candidates ==
            IF queryEmbedding.some
            THEN {[some |-> FALSE, val |-> <<>>, caught |-> FALSE]} \cup
                 {[some |-> TRUE, val |-> r, caught |-> FALSE] :
                    r \in searchBySimilarity(JSONstringify(queryEmbedding.val), limit)}
            ELSE {[some |-> TRUE, val |-> b.results, caught |-> b.dbError] :
                    b \in basicContentSearch(query, limit)}
        mode == IF queryEmbedding.some THEN "semantic" ELSE "lexical"
    IN  {IF ~c.some
         THEN [kind |-> "raise", mode |-> mode, dbError |-> TRUE,
               candidates |-> <<>>, results |-> <<>>]
         ELSE IF c.val # <<>> /\ RelevanceThrows(query)
         THEN [kind |-> "raise", mode |-> mode, dbError |-> c.caught,
               candidates |-> Ids(c.val), results |-> <<>>]
         ELSE [kind |-> "ok", mode |-> mode, dbError |-> c.caught,
               candidates |-> Ids(c.val), results |-> Enhance(query, c.val)] :
           c \in candidates}

\* the shortest query POST /api/search passes on, after trimming
MinQueryLength == 2

\* POST /api/search rejects a missing, blank or too short query
QueryRejected(query) ==
    query = <<>> \/ Len(trim(query)) = 0 \/ Len(trim(query)) < MinQueryLength

\* POST /api/search: a rejected query is answered 400 with an error body and search
\* is not called (kind "none"); else search is called, and its results are answered
\* 200, or 500 with an error body when it raises
SearchChunks ==
    /\ variant = "chunk"
    /\ ~Searched
    /\ \E query \in Queries, limit \in Limits :
         IF QueryRejected(query)
         THEN last' = [op |-> "search", query |-> query, limit |-> limit,
                       status |-> 400, kind |-> "none", mode |-> "none",
                       dbError |-> FALSE, candidates |-> <<>>, results |-> <<>>]
         ELSE last' \in {[op |-> "search", query |-> query, limit |-> limit,
                          status |-> IF o.kind = "ok" THEN 200 ELSE 500,
                          kind |-> o.kind, mode |-> o.mode, dbError |-> o.dbError,
                          candidates |-> o.candidates, results |-> o.results] :
                            o \in UNION {searchChunk(query, limit, e) :
                                           e \in generateEmbeddingChunk(query)}}
    /\ UNCHANGED <<variant, provider, now, documents, bDocuments, document_chunks,
                 requests>>

-----------------------------------------------------------------------------
(* SearchService.storeDocument of the chunk-level service *)

\* the chunk lists a document of at most n chunks is stored with
ChunkLists(n) == UNION {[1..k -> Texts] : k \in 1..n}

\* the row that INSERT INTO document_chunks (id, document_id, chunk_index, content)
\* adds for chunks[index]; the embedding column is left NULL
ChunkRow(table, documentId, chunks, index, t) ==
    [id |-> Len(table) + 1, document_id |-> documentId, chunk_index |-> index,
     content |-> chunks[index + 1], embedding |-> None, created_at |-> t]

\* the loop of DatabaseService.storeDocument, from chunk index to chunk m: the tables
\* and clocks it may leave
RECURSIVE InsertChunks(_, _, _, _, _, _)
InsertChunks(table, clock, documentId, chunks, index, m) ==
    IF index >= m THEN {[table |-> table, now |-> clock]}
    ELSE UNION {InsertChunks(Append(table, ChunkRow(table, documentId, chunks, index, t)),
                             t, documentId, chunks, index + 1, m) :
                  t \in Stamps(table, clock)}

\* the value the UPDATE stores for one embedding: NULL for null, else the text the
\* driver binds for the array
StoredEmbedding(embedding) ==
    IF embedding.some THEN Some(ArrayToString(embedding.val)) ELSE None

\* DatabaseService.storeChunksWithEmbeddings, its first u updates done: UPDATE
\* document_chunks SET embedding WHERE document_id AND chunk_index
storeChunksWithEmbeddings(table, documentId, embeddings, u) ==
    [i \in 1..Len(table) |->
        IF table[i].document_id = documentId /\ table[i].chunk_index < u
        THEN [table[i] EXCEPT !.embedding = StoredEmbedding(embeddings[table[i].chunk_index + 1])]
        ELSE table[i]]

\* Promise.all(chunks.map(generateEmbedding)): the embedding lists it may resolve to
Embeddings(chunks) ==
    {e \in [1..Len(chunks) -> {None} \cup {Some(EmbeddingOf(c)) : c \in Range(chunks)}] :
        \A i \in 1..Len(chunks) : e[i] \in generateEmbeddingChunk(chunks[i])}

\* an update that is made only when every embedding is a vector
EveryEmbedding(embeddings) == \A i \in 1..Len(embeddings) : embeddings[i].some

\* embeddings.some(emb => emb !== null)
SomeEmbedding(embeddings) == \E i \in 1..Len(embeddings) : embeddings[i].some

\* SearchService.storeDocument(filename, content, chunks): the outcomes it may have.
\* Each storage call may be rejected; storeDocument then raises and what the calls
\* before it wrote stays.  An outcome tells the embeddings Promise.all resolved to
\* (none when it was not reached) and whether a storage call was rejected
storeDocument(chunks) ==
    LET n == Len(chunks)
        documentId == bDocuments + 1
        Outcome(kind, docs, table, clock, embeddings, rejected) ==
            [kind |-> kind, bDocuments |-> docs, table |-> table, now |-> clock,
             documentId |-> documentId, embeddings |-> embeddings, rejected |-> rejected]
        insertRejected == {Outcome("raise", bDocuments, document_chunks, now, <<>>, TRUE)}
        chunkRejected ==
            {Outcome("raise", documentId, r.table, r.now, <<>>, TRUE) :
                r \in UNION {InsertChunks(document_chunks, now, documentId, chunks, 0, m) :
                               m \in 0..(n - 1)}}
        stored == InsertChunks(document_chunks, now, documentId, chunks, 0, n)
        embedded ==
            UNION {{IF ~SomeEmbedding(e)
                    THEN {Outcome("ok", documentId, r.table, r.now, e, FALSE)}
                    ELSE {Outcome(IF u = n THEN "ok" ELSE "raise", documentId,
                                  storeChunksWithEmbeddings(r.table, documentId, e, u),
                                  r.now, e, u < n) : u \in 0..n} :
                      e \in Embeddings(chunks)} : r \in stored}
    IN  insertRejected \cup chunkRejected \cup UNION embedded

\* POST /api/upload calls storeDocument with the chunks of the uploaded text, the
\* storage holding at most maxDocs documents and maxChunks chunks
StoreWithin(maxDocs, maxChunks) ==
    /\ variant = "chunk"
    /\ bDocuments < maxDocs
    /\ Len(document_chunks) < maxChunks
    /\ \E chunks \in ChunkLists(maxChunks - Len(document_chunks)) :
         \E o \in storeDocument(chunks) :
            /\ bDocuments' = o.bDocuments
            /\ document_chunks' = o.table
            /\ now' = o.now
            /\ last' = [op |-> "store", kind |-> o.kind, documentId |-> o.documentId,
                        chunks |-> chunks, embeddings |-> o.embeddings,
                        rejected |-> o.rejected]
    /\ UNCHANGED <<variant, provider, documents, requests>>

StoreDocument == StoreWithin(MaxDocs, MaxChunks)

\* one chunk more than basicContentSearch reads for limit 1
LongDocument == BasicFetchFactor + 1

\* POST /api/upload of one document of up to LongDocument chunks
StoreLongDocument == StoreWithin(1, LongDocument)

-----------------------------------------------------------------------------
(* The specification *)

Init ==
    /\ variant \in {"doc", "chunk"}
    /\ provider \in BOOLEAN
    /\ now = 0
    /\ documents = <<>>
    /\ bDocuments = 0
    /\ document_chunks = <<>>
    /\ requests = {}
    /\ last = [op |-> "init"]

Next ==
    \/ Upload
    \/ Search
    \/ StoreDocument
    \/ SearchChunks

Spec == Init /\ [][Next]_vars

-----------------------------------------------------------------------------
(* DocumentProcessor.splitIntoChunks: unnamed/part_004 *)

\* text.replace(/\r\n/g, '\n')
RECURSIVE replaceCrLf(_)
replaceCrLf(s) ==
    IF s = <<>> THEN <<>>
    ELSE IF Len(s) >= 2 /\ s[1] = "\r" /\ s[2] = "\n" THEN <<"\n">> \o replaceCrLf(Tail(Tail(s)))
    ELSE <<Head(s)>> \o replaceCrLf(Tail(s))

\* text.replace(/\t/g, ' ')
replaceTabs(s) == [i \in 1..Len(s) |-> IF s[i] = "\t" THEN " " ELSE s[i]]

\* text.replace(/\s+/g, ' ')
RECURSIVE replaceWs(_, _)
replaceWs(s, inRun) ==
    IF s = <<>> THEN <<>>
    ELSE IF IsSpace(Head(s))
         THEN IF inRun THEN replaceWs(Tail(s), TRUE)
                       ELSE <<" ">> \o replaceWs(Tail(s), TRUE)
         ELSE <<Head(s)>> \o replaceWs(Tail(s), FALSE)

\* cleanText of splitIntoChunks
cleanText(text) == trim(replaceWs(replaceTabs(replaceCrLf(text)), FALSE))

\* /\s/.test(text[i]), 0-based: text[i] is undefined outside the text, and the test
\* then reads the string "undefined", which has no whitespace
IsSpaceAt(text, i) == i >= 0 /\ i < Len(text) /\ IsSpace(text[i + 1])

\* /[.!?]/.test(text[i]), 0-based
IsSentenceEndAt(text, i) == i >= 0 /\ i < Len(text) /\ text[i + 1] \in {".", "!", "?"}

\* how far before the cut, and how far after it, findSentenceBoundary looks
SentenceLookBack == 100
SentenceLookAhead == 50

\* DocumentProcessor.findSentenceBoundary(text, start, end)
findSentenceBoundary(text, start, end) ==
    LET searchStart == Max(start + (end - start) - SentenceLookBack, start)
        searchEnd == Min(end + SentenceLookAhead, Len(text))
        found == {i \in (searchStart + 1)..searchEnd :
                    /\ IsSentenceEndAt(text, i)
                    /\ (i = searchEnd - 1 \/ IsSpaceAt(text, i + 1))}
    IN  IF found = {} THEN end
        ELSE (CHOOSE i \in found : \A j \in found : j <= i) + 1

\* how far back findWordBoundary looks, and how far splitIntoChunks lets it move start
WordLookBack == 50
WordTolerance == 50

\* DocumentProcessor.findWordBoundary(text, position)
findWordBoundary(text, position) ==
    LET found == {i \in (Max(0, position - WordLookBack) + 1)..position :
                    IsSpaceAt(text, i) /\ ~IsSpaceAt(text, i - 1)}
    IN  IF found = {} THEN position
        ELSE CHOOSE i \in found : \A j \in found : j <= i

\* the start of the next iteration: Math.max(start + chunkSize - overlap, start + 1)
NextStart(start, chunkSize, overlap) == Max(start + chunkSize - overlap, start + 1)

\* the iterations of the while loop of splitIntoChunks from position start, at most
\* fuel of them: each with the start it began with, the start after the word-boundary
\* adjustment (from), the end of its cut, its trimmed chunk and the start it leaves
RECURSIVE splitIterations(_, _, _, _, _)
splitIterations(clean, start, chunkSize, overlap, fuel) ==
    IF start >= Len(clean) \/ fuel = 0 THEN <<>>
    ELSE LET cut == start + chunkSize
             sentenceEnd == findSentenceBoundary(clean, start, cut)
             end == IF cut < Len(clean) /\ sentenceEnd > start THEN sentenceEnd ELSE cut
             wordStart == findWordBoundary(clean, start)
             from == IF start > 0 /\ wordStart > start /\ wordStart < start + WordTolerance
                     THEN wordStart ELSE start
             chunk == substring(clean, from, end)
             next == NextStart(from, chunkSize, overlap)
         IN  <<[start |-> start, from |-> from, end |-> Min(end, Len(clean)),
                chunk |-> trim(chunk), next |-> next]>>
                \o splitIterations(clean, next, chunkSize, overlap, fuel - 1)

\* the while loop of splitIntoChunks from position start: the chunks it pushes, each
\* with the span [start, end) of cleanText it was cut from.  The loop is followed for
\* one iteration more than cleanText has characters
splitLoop(clean, start, chunkSize, overlap) ==
    LET iterations == splitIterations(clean, start, chunkSize, overlap, Len(clean) + 1)
        pushed == {i \in 1..Len(iterations) : iterations[i].chunk # <<>>}
        Nth(n) == CHOOSE i \in pushed : Cardinality({j \in pushed : j <= i}) = n
    IN  [n \in 1..Cardinality(pushed) |->
           [start |-> iterations[Nth(n)].from, end |-> iterations[Nth(n)].end,
            chunk |-> iterations[Nth(n)].chunk]]

\* cleanText.length <= chunkSize: the text is returned as one chunk
FitsOneChunkStrictly(length, chunkSize) == length < chunkSize

FitsOneChunk(length, chunkSize) == length <= chunkSize

\* DocumentProcessor.splitIntoChunks(text, chunkSize, overlap), each chunk with its span
splitIntoChunksSpans(text, chunkSize, overlap) ==
    IF text = <<>> THEN <<>>
    ELSE LET clean == cleanText(text)
         IN  IF FitsOneChunk(Len(clean), chunkSize)
             THEN <<[start |-> 0, end |-> Len(clean), chunk |-> clean]>>
             ELSE splitLoop(clean, 0, chunkSize, overlap)

\* the iterations of the loop in a call of splitIntoChunks: none when the call
\* returns before the loop
splitIntoChunksIterations(text, chunkSize, overlap) ==
    IF text = <<>> THEN <<>>
    ELSE LET clean == cleanText(text)
         IN  IF FitsOneChunk(Len(clean), chunkSize) THEN <<>>
             ELSE splitIterations(clean, 0, chunkSize, overlap, Len(clean) + 1)

\* DocumentProcessor.splitIntoChunks(text, chunkSize, overlap)
splitIntoChunks(text, chunkSize, overlap) ==
    LET spans == splitIntoChunksSpans(text, chunkSize, overlap)
    IN  [i \in 1..Len(spans) |-> spans[i].chunk]

-----------------------------------------------------------------------------
(* Calls of the chunkers *)

\* the characters the enumerated texts are written with
Alphabet == {"a", ".", " "}

\* a text with a tab and a line end between its words
TextTabbed == <<"a", "\t", "a", ".", "\r", "\n", "a">>

\* "Aa b. Aa c. Aa d.": sentences of two words each
TextSentences ==
    <<"A", "a", " ", "b", ".", " ", "A", "a", " ", "c", ".", " ", "A", "a", " ", "d", ".">>

\* the texts a chunker is called with
ChunkerTexts ==
    UNION {[1..n -> Alphabet] : n \in 0..MaxTextLen} \cup {TextTabbed, TextSentences}

\* the chunkSize and overlap a chunker is called with: 0 <= overlap < chunkSize
ChunkerSizes == {<<c, o>> \in (1..MaxChunkSize) \X (0..(MaxChunkSize - 1)) : o < c}

\* a call of DocumentProcessor.splitIntoChunks (POST /api/upload makes it on the
\* extracted text)
SplitIntoChunks ==
    /\ variant = "chunk"
    /\ last.op = "input"
    /\ last' = [op |-> "splitIntoChunks", text |-> last.text,
                chunkSize |-> last.chunkSize, overlap |-> last.overlap,
                spans |-> splitIntoChunksSpans(last.text, last.chunkSize, last.overlap),
                iterations |-> splitIntoChunksIterations(last.text, last.chunkSize,
                                                         last.overlap),
                result |-> splitIntoChunks(last.text, last.chunkSize, last.overlap)]
    /\ UNCHANGED <<variant, provider, now, documents, bDocuments, document_chunks,
                 requests>>

\* a call of SearchService.splitTextIntoChunks of the document-level service
SplitTextIntoChunks ==
    /\ variant = "doc"
    /\ last.op = "input"
    /\ last' = [op |-> "splitTextIntoChunks", text |-> last.text,
                chunkSize |-> last.chunkSize, overlap |-> last.overlap,
                result |-> splitTextIntoChunks(last.text, last.chunkSize, last.overlap)]
    /\ UNCHANGED <<variant, provider, now, documents, bDocuments, document_chunks,
                 requests>>

\* the chunkers are called on any text with any valid chunkSize and overlap
InitChunking ==
    /\ variant \in {"doc", "chunk"}
    /\ provider = FALSE
    /\ now = 0
    /\ documents = <<>>
    /\ bDocuments = 0
    /\ document_chunks = <<>>
    /\ requests = {}
    /\ last \in {[op |-> "input", text |-> t, chunkSize |-> z[1], overlap |-> z[2]] :
                   t \in ChunkerTexts, z \in ChunkerSizes}

NextChunking ==
    \/ SplitIntoChunks
    \/ SplitTextIntoChunks

SpecChunking == InitChunking /\ [][NextChunking]_vars

-----------------------------------------------------------------------------
(* Calls of cosineSimilarity *)

\* the integer vectors of at most MaxDim components
Vectors == UNION {[1..n -> (0 - 1)..MaxComponent] : n \in 0..MaxDim}

\* the arguments cosineSimilarity is called with: null, the empty string, a text that
\* is no JSON, the JSON text of a number, and the JSON texts of the vectors
VectorArguments ==
    {None, Some(<<>>), Some(<<"x">>), Some(<<"5">>)}
        \cup {Some(JSONstringify(v)) : v \in Vectors}

\* a call of SearchService.cosineSimilarity
CosineSimilarity ==
    /\ variant = "doc"
    /\ last.op = "vectors"
    /\ last' = [op |-> "cosineSimilarity", vecA |-> last.vecA, vecB |-> last.vecB,
                result |-> cosineSimilarity(last.vecA, last.vecB)]
    /\ UNCHANGED <<variant, provider, now, documents, bDocuments, document_chunks,
                 requests>>

\* cosineSimilarity is called on any two arguments
InitSimilarity ==
    /\ variant = "doc"
    /\ provider = FALSE
    /\ now = 0
    /\ documents = <<>>
    /\ bDocuments = 0
    /\ document_chunks = <<>>
    /\ requests = {}
    /\ last \in {[op |-> "vectors", vecA |-> a, vecB |-> b] :
                   a \in VectorArguments, b \in VectorArguments}

NextSimilarity == CosineSimilarity

SpecSimilarity == InitSimilarity /\ [][NextSimilarity]_vars

-----------------------------------------------------------------------------
(* The chunk-level service without an embedding provider, over one long document *)

InitLexical ==
    /\ variant = "chunk"
    /\ provider = FALSE
    /\ now = 0
    /\ documents = <<>>
    /\ bDocuments = 0
    /\ document_chunks = <<>>
    /\ requests = {}
    /\ last = [op |-> "init"]

NextLexical ==
    \/ StoreLongDocument
    \/ SearchChunks

SpecLexical == InitLexical /\ [][NextLexical]_vars

-----------------------------------------------------------------------------
(* The claims *)

DocSearched == variant = "doc" /\ Searched
ChunkSearched == variant = "chunk" /\ Searched

\* the result lists textSearch may produce now for the query and limit last served
TextLists ==
    {t.results : t \in {u \in {textSearch(last.query, last.limit, Some(rows)) :
                                  rows \in getAllDocuments} : u.kind = "ok"}}

\* C1: with a provider configured, when the semantic path completes with zero
\* results, what search returns is the list of textSearch: it returns no empty list
\* while textSearch finds documents.
C1_EmptySemanticFallsBack ==
    (DocSearched /\ provider /\ last.kind = "ok" /\ last.path = "semantic"
        /\ last.results = <<>>)
    => \A l \in TextLists : l = <<>>

\* C2: when the provider is absent or the query embedding is not obtained, and the
\* storage reads succeed, search does not raise and returns a list textSearch
\* produces.
C2_NoVectorGivesTextSearch ==
    (DocSearched /\ (~provider \/ ~last.queryEmbedding.some) /\ ~last.dbError)
    => last.kind = "ok" /\ last.results \in TextLists

\* C3: a list the chunk-level search returns is served by one mode: with the query
\* embedding obtained its members and their order are those of the similarity query;
\* without it every member has a positive lexical score.
C3_ModePure ==
    (ChunkSearched /\ last.kind = "ok")
    => /\ last.mode = "semantic" => Ids(last.results) = last.candidates
       /\ last.mode = "lexical" =>
             \A k \in 1..Len(last.results) :
                BasicScore(last.query, document_chunks[last.results[k].id].content) > 0

\* the stored documents whose embedding is more than the threshold similar to the
\* query embedding last served
SimilarDocs ==
    {i \in 1..Len(documents) :
        /\ documents[i].embedding.some
        /\ SimGtFraction(cosineSimilarity(last.queryEmbedding, documents[i].embedding),
                         MinSimNum, MinSimDen)}

\* C4: every document stored with an embedding whose similarity to the query
\* embedding is above 0.1 is in the list of the semantic path, when at most limit
\* documents are.
C4_SimilarDocsReturned ==
    (DocSearched /\ last.kind = "ok" /\ last.path = "semantic"
        /\ Cardinality(SimilarDocs) <= last.limit)
    => \A i \in SimilarDocs : \E k \in 1..Len(last.results) : last.results[k].id = i

\* C5: every entry of a list semanticSearch returns is a document with a stored
\* embedding and a score above the 0.1 threshold.
C5_SemanticResultsQualify ==
    (DocSearched /\ last.kind = "ok" /\ last.path = "semantic")
    => \A k \in 1..Len(last.results) :
          /\ documents[last.results[k].id].embedding.some
          /\ SimGtFraction(last.results[k].score, MinSimNum, MinSimDen)

\* semanticSearch has returned over a storage that holds a document with an
\* embedding and one without, the query embedding being the zero vector or not
C5_Witness ==
    /\ DocSearched /\ last.kind = "ok" /\ last.path = "semantic"
    /\ \E i, j \in 1..Len(documents) :
          documents[i].embedding.some /\ ~documents[j].embedding.some

\* C6: with the query embedding obtained, the chunk-level search returns only chunks
\* that have a stored embedding.
C6_OnlyEmbeddedChunks ==
    (ChunkSearched /\ last.kind = "ok" /\ last.mode = "semantic")
    => \A k \in 1..Len(last.results) :
          document_chunks[last.results[k].id].embedding.some

\* C7: in a list the document-level search returns, of two results with equal score
\* the document stored earlier comes first.
C7_TiesInInsertionOrder ==
    (DocSearched /\ last.kind = "ok")
    => \A i, j \in 1..Len(last.results) :
          (i < j /\ SimEq(last.results[i].score, last.results[j].score))
          => last.results[i].id < last.results[j].id

\* C8: a list either search returns has at most limit results.
C8_AtMostLimit ==
    (Searched /\ last.kind = "ok") => Len(last.results) <= last.limit

\* textSearch has cut its list: it returned limit >= 1 documents of more that match
C8_Witness ==
    /\ DocSearched /\ last.kind = "ok" /\ last.path = "text"
    /\ last.limit >= 1
    /\ Len(last.results) = last.limit
    /\ \E rows \in getAllDocuments :
          Cardinality({i \in 1..Len(rows) :
              TextDocScore(rows[i].content, TextQueryWords(last.query)) > 0}) > last.limit

\* the number of characters of a text that are no whitespace
NonWhitespace(text) == Cardinality({i \in 1..Len(text) : ~IsSpace(text[i])})

\* C9: a query of fewer than 2 non-whitespace characters is answered through
\* POST /api/search with an empty result list and not with an error.
C9_ShortQueryEmptyList ==
    (ChunkSearched /\ NonWhitespace(last.query) < MinQueryLength)
    => last.status = 200 /\ last.results = <<>>

\* C10: for a query of length >= 2 the chunk-level search returns a list and does not
\* raise, the storage read having succeeded.
C10_SearchNeverRaises ==
    (ChunkSearched /\ Len(last.query) >= MinQueryLength /\ last.kind # "none"
        /\ ~last.dbError)
    => last.kind = "ok"

\* the stored chunks that have a positive lexical score for the query last served and
\* that fewer than limit other stored chunks match or exceed in score
TopLexical ==
    {c \in 1..Len(JoinedChunks) :
        /\ BasicScore(last.query, JoinedChunks[c].content) > 0
        /\ Cardinality({d \in 1..Len(JoinedChunks) :
              /\ d # c
              /\ BasicScore(last.query, JoinedChunks[d].content)
                   >= BasicScore(last.query, JoinedChunks[c].content)}) < last.limit}

\* C11: without a query embedding, and the storage read succeeding, every stored chunk
\* with a positive lexical score that fewer than limit other chunks match or exceed
\* is in the returned list, however many chunks were stored after it.
C11_LexicalScoresAllChunks ==
    (ChunkSearched /\ last.kind = "ok" /\ last.mode = "lexical" /\ ~last.dbError)
    => \A c \in TopLexical :
          \E k \in 1..Len(last.results) : last.results[k].id = JoinedChunks[c].id

\* C12: no result of the chunk-level search has a relevanceScore of exactly 0.
C12_NoZeroRelevance ==
    (ChunkSearched /\ last.kind = "ok")
    => \A k \in 1..Len(last.results) : last.results[k].relevanceScore # 0

-----------------------------------------------------------------------------
(* The claims on the chunkers *)

\* the text is empty or whitespace only
IsBlank(text) == \A i \in 1..Len(text) : IsSpace(text[i])

\* the whitespace-normalized, trimmed form of a text: its words, one space between them
Normalized(text) == join(SelectSeq(split(text), LAMBDA w : w # <<>>))

\* C13: splitIntoChunks returns no chunk for an empty or whitespace-only text, and
\* for any other text at least one chunk, each non-empty after trimming.
C13_BlankGivesNoChunk ==
    last.op = "splitIntoChunks"
    => IF IsBlank(last.text)
       THEN last.result = <<>>
       ELSE /\ Len(last.result) >= 1
            /\ \A k \in 1..Len(last.result) : trim(last.result[k]) # <<>>

\* C14: a text whose normalized form is non-empty and at most chunkSize long gives
\* exactly one chunk, that normalized form.
C14_ShortTextOneChunk ==
    (last.op = "splitIntoChunks" /\ Normalized(last.text) # <<>>
        /\ Len(Normalized(last.text)) <= last.chunkSize)
    => last.result = <<Normalized(last.text)>>

\* splitIntoChunks has returned one chunk for a text that normalization changed and
\* that is exactly chunkSize long once normalized, an overlap being asked for
C14_Witness ==
    /\ last.op = "splitIntoChunks"
    /\ Normalized(last.text) # last.text
    /\ Len(Normalized(last.text)) = last.chunkSize
    /\ last.overlap > 0
    /\ Len(last.result) = 1

\* C15: every chunk splitIntoChunks returns is at most chunkSize long.
C15_ChunkWithinSize ==
    last.op = "splitIntoChunks"
    => \A k \in 1..Len(last.result) : Len(last.result[k]) <= last.chunkSize

\* C16: every non-whitespace position of the normalized text lies in the span
\* [start, end) of a chunk splitIntoChunks returns.
C16_ChunksCoverText ==
    last.op = "splitIntoChunks"
    => \A p \in 0..(Len(Normalized(last.text)) - 1) :
          ~IsSpace(Normalized(last.text)[p + 1])
          => \E k \in 1..Len(last.spans) :
                last.spans[k].start <= p /\ p < last.spans[k].end

\* C17: re-chunking any chunk splitTextIntoChunks returned for a non-empty text, with
\* the same chunkSize and overlap, returns that chunk alone.
C17_RechunkIdempotent ==
    (last.op = "splitTextIntoChunks" /\ last.text # <<>>)
    => \A k \in 1..Len(last.result) :
          splitTextIntoChunks(last.result[k], last.chunkSize, last.overlap)
            = <<last.result[k]>>

\* a word ends a sentence: its last character is a full stop, ! or ?
EndsSentence(word) == word # <<>> /\ word[Len(word)] \in {".", "!", "?"}

\* the text is a sequence of sentences of exactly chunkSize words each, one space
\* between words: every chunkSize-th word ends a sentence and no other word does
IsSentenceText(text, chunkSize) ==
    LET words == split(text)
    IN  /\ text # <<>>
        /\ text = Normalized(text)
        /\ Len(words) % chunkSize = 0
        /\ \A i \in 1..Len(words) : EndsSentence(words[i]) <=> (i % chunkSize = 0)

\* the sentences of such a text, in order
Sentences(text, chunkSize) ==
    LET words == split(text)
    IN  [k \in 1..(Len(words) \div chunkSize) |->
            join(SubSeq(words, (k - 1) * chunkSize + 1, k * chunkSize))]

\* C18: with overlap 0, a text of sentences of exactly chunkSize words each is split
\* by splitTextIntoChunks into its sentences, in order.
C18_OneChunkPerSentence ==
    (last.op = "splitTextIntoChunks" /\ last.overlap = 0
        /\ IsSentenceText(last.text, last.chunkSize))
    => last.result = Sentences(last.text, last.chunkSize)

\* splitTextIntoChunks has split a text of three sentences of two words each
C18_Witness ==
    /\ last.op = "splitTextIntoChunks" /\ last.overlap = 0
    /\ last.chunkSize = 2
    /\ IsSentenceText(last.text, last.chunkSize)
    /\ Len(last.result) = 3

-----------------------------------------------------------------------------
(* The claims on cosineSimilarity *)

\* the argument is null, undefined or the empty string
IsAbsent(v) == ~v.some \/ v.val = <<>>

\* the argument is a text that JSON.parse rejects or that is no JSON array
IsNoArray(v) == ~JSONparse(v.val).ok \/ ~JSONparse(v.val).isArray

\* the components of an argument that is a JSON array
Components(v) == JSONparse(v.val).items

IsZeroVector(v) == \A i \in 1..Len(Components(v)) : Components(v)[i] = 0

\* C19: cosineSimilarity returns 0 when an argument is absent, is no JSON array or is
\* an all-zero vector, and when the two vectors differ in length.
C19_DegenerateGivesZero ==
    (/\ last.op = "cosineSimilarity"
     /\ \/ IsAbsent(last.vecA) \/ IsAbsent(last.vecB)
        \/ IsNoArray(last.vecA) \/ IsNoArray(last.vecB)
        \/ IsZeroVector(last.vecA) \/ IsZeroVector(last.vecB)
        \/ Len(Components(last.vecA)) # Len(Components(last.vecB)))
    => last.result.num = 0

\* cosineSimilarity has returned for two vectors of different lengths, neither all
\* zero, that agree on a component that is not 0
C19_Witness ==
    /\ last.op = "cosineSimilarity"
    /\ ~IsAbsent(last.vecA) /\ ~IsAbsent(last.vecB)
    /\ ~IsNoArray(last.vecA) /\ ~IsNoArray(last.vecB)
    /\ ~IsZeroVector(last.vecA) /\ ~IsZeroVector(last.vecB)
    /\ Len(Components(last.vecA)) = 1 /\ Len(Components(last.vecB)) = 2
    /\ Components(last.vecA)[1] * Components(last.vecB)[1] # 0

\* C20: cosineSimilarity(a, b) equals cosineSimilarity(b, a).
C20_Symmetric ==
    last.op = "cosineSimilarity"
    => SimEq(last.result, cosineSimilarity(last.vecB, last.vecA))

\* cosineSimilarity has returned a similarity that is not 0 for two vectors of
\* different norms
C20_Witness ==
    /\ last.op = "cosineSimilarity"
    /\ last.result.num # 0
    /\ Sum([i \in 1..Len(Components(last.vecA)) |->
              Components(last.vecA)[i] * Components(last.vecA)[i]])
         # Sum([i \in 1..Len(Components(last.vecB)) |->
                 Components(last.vecB)[i] * Components(last.vecB)[i]])

-----------------------------------------------------------------------------
(* Excerpts: SearchService.createExcerpt of the chunk-level service *)

\* the ellipsis marker '...'
Ellipsis == <<".", ".", ".">>

\* twice the value of start: Math.max(0, queryIndex - maxLength / 2) is a number with
\* a fractional part one half when maxLength is odd, so the model counts in halves
ExcerptStart2(queryIndex, maxLength) == Max(0, 2 * queryIndex - maxLength)

\* twice the value of end: Math.min(content.length, start + maxLength)
ExcerptEnd2(content, start2, maxLength) == Min(2 * Len(content), start2 + 2 * maxLength)

\* a test that also marks a content of exactly maxLength characters
TruncatedAtOrOver(content, maxLength) == Len(content) >= maxLength

\* content.length > maxLength, the test for the trailing marker when the query is
\* not found
Truncated(content, maxLength) == Len(content) > maxLength

\* createExcerpt with the indices it cuts at: substring truncates its arguments to
\* integers, the two tests for the markers compare the numbers themselves
createExcerptSpan(content, query, maxLength) ==
    LET contentLower == toLowerCase(content)
        queryLower == toLowerCase(query)
        queryIndex == indexOf(contentLower, queryLower)
        start2 == ExcerptStart2(queryIndex, maxLength)
        end2 == ExcerptEnd2(content, start2, maxLength)
        window == substring(content, start2 \div 2, end2 \div 2)
    IN  IF queryIndex # 0 - 1
        THEN [queryIndex |-> queryIndex,
              from |-> Min(start2 \div 2, Len(content)),
              to |-> Min(end2 \div 2, Len(content)),
              leading |-> start2 > 0,
              trailing |-> end2 < 2 * Len(content),
              excerpt |-> (IF start2 > 0 THEN Ellipsis ELSE <<>>) \o window
                            \o (IF end2 < 2 * Len(content) THEN Ellipsis ELSE <<>>)]
        ELSE [queryIndex |-> queryIndex,
              from |-> 0,
              to |-> Min(maxLength, Len(content)),
              leading |-> FALSE,
              trailing |-> Truncated(content, maxLength),
              excerpt |-> substring(content, 0, maxLength)
                            \o (IF Truncated(content, maxLength) THEN Ellipsis
                                                                 ELSE <<>>)]

createExcerpt(content, query, maxLength) ==
    createExcerptSpan(content, query, maxLength).excerpt

(* Calls of createExcerpt *)

MaxContentLen == 4     \* characters of a content handed to createExcerpt
MaxExcerptLength == 3  \* the maxLength handed to createExcerpt ranges over 1..MaxExcerptLength

ExcerptAlphabet == {"a", "b", "B"}

\* "The quick brown fox jumps"
TextFox ==
    <<"T", "h", "e", " ", "q", "u", "i", "c", "k", " ", "b", "r", "o", "w", "n", " ",
      "f", "o", "x", " ", "j", "u", "m", "p", "s">>

QueryBrown == <<"b", "r", "o", "w", "n">>

ExcerptContents == UNION {[1..n -> ExcerptAlphabet] : n \in 0..MaxContentLen}

ExcerptQueries == {<<>>, <<"b">>, <<"a", "b">>, <<"c">>}

\* the calls: every content against every query and maxLength, and the call on the
\* fox with maxLength 10
ExcerptArguments ==
    (ExcerptContents \X ExcerptQueries \X (1..MaxExcerptLength))
        \cup {<<TextFox, QueryBrown, 10>>, <<TextFox, <<"c", "a", "t">>, 10>>}

\* a call of SearchService.createExcerpt
CreateExcerpt ==
    /\ variant = "chunk"
    /\ last.op = "input"
    /\ last' = [op |-> "createExcerpt", content |-> last.content,
                query |-> last.query, maxLength |-> last.maxLength,
                span |-> createExcerptSpan(last.content, last.query, last.maxLength),
                result |-> createExcerpt(last.content, last.query, last.maxLength)]
    /\ UNCHANGED <<variant, provider, now, documents, bDocuments, document_chunks,
                 requests>>

\* createExcerpt is called on any content, query and maxLength
InitExcerpt ==
    /\ variant = "chunk"
    /\ provider = FALSE
    /\ now = 0
    /\ documents = <<>>
    /\ bDocuments = 0
    /\ document_chunks = <<>>
    /\ requests = {}
    /\ last \in {[op |-> "input", content |-> a[1], query |-> a[2], maxLength |-> a[3]] :
                   a \in ExcerptArguments}

NextExcerpt == CreateExcerpt

SpecExcerpt == InitExcerpt /\ [][NextExcerpt]_vars

\* the call was served and the query occurs in the content
ExcerptFound == last.op = "createExcerpt" /\ last.span.queryIndex >= 0

\* C21: when the query is found at position p, the excerpt is a window of the content
\* of at most maxLength characters that contains position p, with the marker in front
\* exactly when the window starts after the first character and the marker behind
\* exactly when it ends before the last
C21_WindowAroundMatch ==
    (ExcerptFound /\ last.query # <<>>) =>
        LET span == last.span
            content == last.content
        IN  /\ span.to - span.from <= last.maxLength
            /\ span.from <= span.queryIndex /\ span.queryIndex < span.to
            /\ last.result =
                 (IF span.from > 0 THEN Ellipsis ELSE <<>>)
                   \o SubSeq(content, span.from + 1, span.to)
                   \o (IF span.to < Len(content) THEN Ellipsis ELSE <<>>)

\* the example of C21: the fox, "brown" and 10 give "...uick brown..."
C21_FoxExample ==
    (last.op = "createExcerpt" /\ last.content = TextFox /\ last.query = QueryBrown) =>
        last.result = Ellipsis \o <<"u", "i", "c", "k", " ", "b", "r", "o", "w", "n">>
                        \o Ellipsis

\* C22: when the query is not found, the excerpt is the first maxLength characters of
\* the content, followed by the marker exactly when the content is longer than
\* maxLength, and the same arguments always give the same excerpt
C22_HeadWhenNotFound ==
    (last.op = "createExcerpt" /\ ~includes(toLowerCase(last.content),
                                            toLowerCase(last.query))) =>
        /\ last.result =
             SubSeq(last.content, 1, Min(last.maxLength, Len(last.content)))
               \o (IF Len(last.content) > last.maxLength THEN Ellipsis ELSE <<>>)
        /\ last.result = createExcerpt(last.content, last.query, last.maxLength)

\* a content longer than maxLength that does not hold the query was cut
C22_Witness ==
    /\ last.op = "createExcerpt"
    /\ last.span.queryIndex = 0 - 1
    /\ Len(last.content) > last.maxLength
    /\ Len(last.result) = last.maxLength + 3

-----------------------------------------------------------------------------
(* Calls of calculateRelevanceScore *)

MaxContentWords == 3  \* words of a content handed to calculateRelevanceScore

\* the words contents are made of: a query word, the same inside a longer word and in
\* capitals, and words that are no query word
ScoredWords ==
    {<<"a", "a", "b">>, <<"b", "a", "a", "b">>, <<"A", "a", "b">>, <<"b">>,
     <<"b", "b">>, <<"a", "_">>}

ScoredContents == {join(ws) : ws \in UNION {[1..n -> ScoredWords] : n \in 1..MaxContentWords}}

\* "aab", "aab b", "b aab", "aab aab" and a query whose word is no regular expression
ScoredQueries ==
    {<<"a", "a", "b">>, <<"a", "a", "b", " ", "b">>, <<"b", " ", "a", "a", "b">>,
     <<"a", "a", "b", " ", "a", "a", "b">>, <<"(", "a", "b">>}

\* a call of SearchService.calculateRelevanceScore, with what each query word and
\* each pair of adjacent query words added
CalculateRelevanceScore ==
    /\ variant = "chunk"
    /\ last.op = "input"
    /\ LET queryWords == split(toLowerCase(last.query))
           contentLower == toLowerCase(last.content)
       IN  last' =
             IF RelevanceThrows(last.query)
             THEN [op |-> "calculateRelevanceScore", query |-> last.query,
                   content |-> last.content, kind |-> "raise",
                   queryWords |-> queryWords, words |-> <<>>, bigrams |-> <<>>,
                   raw |-> 0, score |-> 0]
             ELSE [op |-> "calculateRelevanceScore", query |-> last.query,
                   content |-> last.content, kind |-> "ok",
                   queryWords |-> queryWords,
                   words |-> [k \in 1..Len(queryWords) |->
                                WordContribution(queryWords[k], contentLower)],
                   bigrams |-> [k \in 1..(Len(queryWords) - 1) |->
                                  BigramContribution(queryWords[k], queryWords[k + 1],
                                                     contentLower)],
                   raw |-> RelevanceRaw(last.query, last.content),
                   score |-> RelevanceScore(last.query, last.content)]
    /\ UNCHANGED <<variant, provider, now, documents, bDocuments, document_chunks,
                 requests>>

\* calculateRelevanceScore is called on any query and content
InitRelevance ==
    /\ variant = "chunk"
    /\ provider = FALSE
    /\ now = 0
    /\ documents = <<>>
    /\ bDocuments = 0
    /\ document_chunks = <<>>
    /\ requests = {}
    /\ last \in {[op |-> "input", query |-> q, content |-> c] :
                   q \in ScoredQueries, c \in ScoredContents}

NextRelevance == CalculateRelevanceScore

SpecRelevance == InitRelevance /\ [][NextRelevance]_vars

\* the call returned a score
Scored == last.op = "calculateRelevanceScore" /\ last.kind = "ok"

\* C25: every query word longer than 2 characters adds the number of its occurrences
\* as a whole word, whatever the case, and every shorter query word adds nothing
C25_WholeWordOccurrences ==
    Scored =>
        \A k \in 1..Len(last.queryWords) :
            last.words[k] =
                IF Len(last.queryWords[k]) > 2
                THEN matchCount(last.content, last.queryWords[k], TRUE)
                ELSE 0

\* the places of text where sub begins
Occurrences(text, sub) ==
    {i \in 1..(Len(text) - Len(sub) + 1) : SubSeq(text, i, i + Len(sub) - 1) = sub}

\* C26: every pair of adjacent query words adds the bonus once for every place of the
\* content where the pair stands verbatim
C26_BonusPerOccurrence ==
    Scored =>
        \A k \in 1..(Len(last.queryWords) - 1) :
            last.bigrams[k] =
                ProximityBonus
                  * Cardinality(Occurrences(toLowerCase(last.content),
                                            last.queryWords[k] \o <<" ">>
                                              \o last.queryWords[k + 1]))

\* word holds no query word, in any case
HoldsNoQueryWord(word, queryWords) ==
    \A k \in 1..Len(queryWords) : ~includes(toLowerCase(word), queryWords[k])

\* the contents that are content with some of its words that hold no query word
\* replaced by one query word longer than 2 characters: the same number of words,
\* more occurrences of that query word, nothing else changed
MoreOccurrences(content, queryWords) ==
    LET words == split(content)
        free == {i \in 1..Len(words) : HoldsNoQueryWord(words[i], queryWords)}
    IN  {join([i \in 1..Len(words) |-> IF i \in S THEN queryWords[k] ELSE words[i]]) :
           k \in {j \in 1..Len(queryWords) : Len(queryWords[j]) > 2},
           S \in (SUBSET free) \ {{}}}

-----------------------------------------------------------------------------
(* Calls of splitIntoChunks with any overlap *)

\* the chunkSize and overlap of these calls: chunkSize >= 1 and overlap >= 0, an
\* overlap of chunkSize and more included
AnySizes == (1..MaxChunkSize) \X (0..(MaxChunkSize + 1))

\* splitIntoChunks is called on any text with any chunkSize and any overlap
InitTermination ==
    /\ variant = "chunk"
    /\ provider = FALSE
    /\ now = 0
    /\ documents = <<>>
    /\ bDocuments = 0
    /\ document_chunks = <<>>
    /\ requests = {}
    /\ last \in {[op |-> "input", text |-> t, chunkSize |-> z[1], overlap |-> z[2]] :
                   t \in ChunkerTexts, z \in AnySizes}

NextTermination == SplitIntoChunks

SpecTermination == InitTermination /\ [][NextTermination]_vars

\* the loop of splitIntoChunks advances and ends: every iteration leaves a start
\* greater than the one it began with, the word-boundary adjustment moves no start
\* back, and the loop is left within as many iterations as the normalized text has
\* characters
LoopAdvances ==
    last.op = "splitIntoChunks" =>
        LET its == last.iterations
            clean == cleanText(last.text)
        IN  /\ Len(its) <= Len(clean)
            /\ \A i \in 1..Len(its) :
                  /\ its[i].from >= its[i].start
                  /\ its[i].next > its[i].from
                  /\ i < Len(its) => its[i + 1].start = its[i].next
            /\ its # <<>> => its[Len(its)].next >= Len(clean)

\* a loop of several iterations ran with an overlap of chunkSize or more
LoopAdvancesWitness ==
    /\ last.op = "splitIntoChunks"
    /\ last.overlap >= last.chunkSize
    /\ Len(last.iterations) >= 3

\* C30: splitIntoChunks ends for every text, chunkSize >= 1 and overlap >= 0, its
\* loop advancing in every iteration, and it returns at most as many chunks as the
\* normalized text has characters
C30_TerminatesWithinLength ==
    /\ LoopAdvances
    /\ last.op = "splitIntoChunks" => Len(last.result) <= Len(cleanText(last.text))

-----------------------------------------------------------------------------
(* Claims on SearchService.storeDocument *)

\* storeDocument was called and no storage call was rejected
StoredUnrejected == last.op = "store" /\ ~last.rejected

\* the rows of document_chunks that belong to document d
ChunksOf(d) == {i \in 1..Len(document_chunks) : document_chunks[i].document_id = d}

\* C23: whichever embeddings fail, storeDocument returns the id without raising, the
\* document and every chunk are stored, an embedding was asked for every chunk, a
\* chunk whose embedding succeeded holds that vector and a chunk whose embedding
\* failed holds none
C23_EmbeddingsIndependent ==
    StoredUnrejected =>
        /\ last.kind = "ok"
        /\ bDocuments >= last.documentId
        /\ Len(last.embeddings) = Len(last.chunks)
        /\ Cardinality(ChunksOf(last.documentId)) = Len(last.chunks)
        /\ \A k \in 1..Len(last.chunks) :
              \E i \in ChunksOf(last.documentId) :
                  /\ document_chunks[i].chunk_index = k - 1
                  /\ document_chunks[i].content = last.chunks[k]
                  /\ document_chunks[i].embedding = StoredEmbedding(last.embeddings[k])
                  /\ last.embeddings[k].some <=> document_chunks[i].embedding.some

\* a document of two chunks was stored, the embedding of one failed and that of the
\* other succeeded
C23_Witness ==
    /\ StoredUnrejected
    /\ last.kind = "ok"
    /\ \E j, k \in 1..Len(last.embeddings) :
          last.embeddings[j].some /\ ~last.embeddings[k].some

\* C29: when storeDocument has finished, with success or with an error, storage holds
\* the row of the document with all of its chunks, or neither the row nor a chunk
C29_DocumentWithAllChunksOrNone ==
    last.op = "store" =>
        IF bDocuments >= last.documentId
        THEN Cardinality(ChunksOf(last.documentId)) = Len(last.chunks)
        ELSE ChunksOf(last.documentId) = {}

-----------------------------------------------------------------------------
(* Requests in flight: POST /api/upload and POST /api/search of the chunk-level
   service, one step for every await.  Node runs one request until its next await,
   so the steps of several requests interleave at the awaits. *)

UploadChunkSize == 5  \* stands for the default chunkSize of splitIntoChunks
UploadOverlap == 1    \* stands for the default overlap of splitIntoChunks
MaxPending == 1       \* searches that await the embedding of their query

\* the texts extracted from uploaded files, a whitespace-only one among them
UploadTexts == Texts \cup {<<" ", " ">>}

\* an upload in flight: in the loop of DatabaseService.storeDocument before the
\* insert of chunk index (pc "insert"), at await Promise.all (pc "await"), or in the
\* loop of storeChunksWithEmbeddings before the update of chunk index (pc "update")
UploadRequest(documentId, chunks, pc, index, embeddings) ==
    [op |-> "upload", id |-> documentId, chunks |-> chunks, pc |-> pc, index |-> index,
     embeddings |-> embeddings, query |-> <<>>, limit |-> 0]

\* a search in flight, at await this.generateEmbedding(query)
SearchRequest(query, limit) ==
    [op |-> "search", id |-> 0, chunks |-> <<>>, pc |-> "await", index |-> 0,
     embeddings |-> <<>>, query |-> query, limit |-> limit]

\* the upload of document d that is in flight
UploadOf(d) == CHOOSE r \in requests : r.op = "upload" /\ r.id = d

InFlight(d) == \E r \in requests : r.op = "upload" /\ r.id = d

SearchInFlight == \E r \in requests : r.op = "search"

\* storeDocument of request r has ended
StoreEnded(r, kind, embeddings, rejected) ==
    [op |-> "store", kind |-> kind, documentId |-> r.id, chunks |-> r.chunks,
     embeddings |-> embeddings, rejected |-> rejected]

\* POST /api/upload up to its first await that storage answers: a text without a
\* readable character is refused; else the text is split and the row of the document
\* is inserted, unless storage rejects the insert
BeginUpload ==
    /\ variant = "chunk"
    /\ bDocuments < MaxDocs
    /\ \E text \in UploadTexts :
         LET chunks == splitIntoChunks(text, UploadChunkSize, UploadOverlap)
             r == UploadRequest(bDocuments + 1, chunks, "insert", 0, <<>>)
         IN  IF trim(text) = <<>>
             THEN /\ last' = [op |-> "upload", kind |-> "raise", text |-> text]
                  /\ UNCHANGED <<bDocuments, requests>>
             ELSE \/ /\ last' = StoreEnded(UploadRequest(0, chunks, "insert", 0, <<>>),
                                           "raise", <<>>, TRUE)
                     /\ UNCHANGED <<bDocuments, requests>>
                  \/ /\ bDocuments' = bDocuments + 1
                     /\ requests' = requests \cup {r}
                     /\ UNCHANGED last
    /\ UNCHANGED <<variant, provider, now, documents, document_chunks>>

\* the INSERT of one chunk of document d is answered: rejected, and storeDocument
\* raises; or done, and after the last chunk generateEmbedding is called on every
\* chunk, which without a key returns null at once, so that storeDocument returns.
\* No step here reads created_at, and the rows are stamped within one tick of the clock
InsertChunk(d) ==
    /\ InFlight(d)
    /\ UploadOf(d).pc = "insert"
    /\ LET r == UploadOf(d)
           n == Len(r.chunks)
       IN  \/ /\ requests' = requests \ {r}
              /\ last' = StoreEnded(r, "raise", <<>>, TRUE)
              /\ UNCHANGED <<now, document_chunks>>
           \/   /\ document_chunks' =
                     Append(document_chunks,
                            ChunkRow(document_chunks, d, r.chunks, r.index, now))
                /\ UNCHANGED now
                /\ IF r.index + 1 < n
                   THEN /\ requests' = (requests \ {r})
                                         \cup {UploadRequest(d, r.chunks, "insert",
                                                             r.index + 1, <<>>)}
                        /\ UNCHANGED last
                   ELSE IF provider
                   THEN /\ requests' = (requests \ {r})
                                         \cup {UploadRequest(d, r.chunks, "await", 0, <<>>)}
                        /\ UNCHANGED last
                   ELSE /\ requests' = requests \ {r}
                        /\ last' = StoreEnded(r, "ok", [i \in 1..n |-> None], FALSE)
    /\ UNCHANGED <<variant, provider, documents, bDocuments>>

\* the provider has answered every embedding call of document d, each with a vector
\* or with an error: Promise.all resolves, and storeDocument returns when no
\* embedding is a vector
EmbeddingsSettle(d) ==
    /\ InFlight(d)
    /\ UploadOf(d).pc = "await"
    /\ LET r == UploadOf(d)
       IN  \E e \in Embeddings(r.chunks) :
              IF SomeEmbedding(e)
              THEN /\ requests' = (requests \ {r})
                                    \cup {UploadRequest(d, r.chunks, "update", 0, e)}
                   /\ UNCHANGED last
              ELSE /\ requests' = requests \ {r}
                   /\ last' = StoreEnded(r, "ok", e, FALSE)
    /\ UNCHANGED <<variant, provider, now, documents, bDocuments, document_chunks>>

\* the UPDATE of one chunk of document d is answered: rejected, and storeDocument
\* raises; or done, and after the last one storeDocument returns
UpdateEmbedding(d) ==
    /\ InFlight(d)
    /\ UploadOf(d).pc = "update"
    /\ LET r == UploadOf(d)
           n == Len(r.chunks)
       IN  \/ /\ requests' = requests \ {r}
              /\ last' = StoreEnded(r, "raise", r.embeddings, TRUE)
              /\ UNCHANGED document_chunks
           \/ /\ document_chunks' =
                   storeChunksWithEmbeddings(document_chunks, d, r.embeddings, r.index + 1)
              /\ IF r.index + 1 < n
                 THEN /\ requests' = (requests \ {r})
                                       \cup {UploadRequest(d, r.chunks, "update",
                                                           r.index + 1, r.embeddings)}
                      /\ UNCHANGED last
                 ELSE /\ requests' = requests \ {r}
                      /\ last' = StoreEnded(r, "ok", r.embeddings, FALSE)
    /\ UNCHANGED <<variant, provider, now, documents, bDocuments>>

\* what POST /api/search answers once generateEmbedding has returned queryEmbedding:
\* of an answer the status, whether search raised and the mode it ran in are kept
SearchResponses(query, limit, queryEmbedding) ==
    {[op |-> "search", status |-> IF o.kind = "ok" THEN 200 ELSE 500,
      kind |-> o.kind, mode |-> o.mode] :
        o \in searchChunk(query, limit, queryEmbedding)}

\* POST /api/search up to await this.generateEmbedding(query): a rejected query is
\* answered 400; without a key generateEmbedding returns null at once and the search
\* is answered; else the call to the provider is made and awaited
BeginSearch ==
    /\ variant = "chunk"
    /\ ~Searched
    /\ \E query \in Queries, limit \in {MaxLimit} :
         IF QueryRejected(query)
         THEN /\ last' = [op |-> "search", status |-> 400, kind |-> "none",
                          mode |-> "none"]
              /\ UNCHANGED requests
         ELSE IF ~provider
         THEN /\ last' \in SearchResponses(query, limit, None)
              /\ UNCHANGED requests
         ELSE /\ Cardinality({r \in requests : r.op = "search"}) < MaxPending
              /\ requests' = requests \cup {SearchRequest(query, limit)}
              /\ UNCHANGED last
    /\ UNCHANGED <<variant, provider, now, documents, bDocuments, document_chunks>>

\* the provider has answered the embedding call of a search, with a vector or with an
\* error: the search reads storage and is answered
QueryEmbeddingSettles ==
    /\ \E r \in requests :
         /\ r.op = "search"
         /\ \E e \in generateEmbeddingChunk(r.query) :
              last' \in SearchResponses(r.query, r.limit, e)
         /\ requests' = requests \ {r}
    /\ UNCHANGED <<variant, provider, now, documents, bDocuments, document_chunks>>

InitRequests ==
    /\ variant = "chunk"
    /\ provider \in BOOLEAN
    /\ now = 0
    /\ documents = <<>>
    /\ bDocuments = 0
    /\ document_chunks = <<>>
    /\ requests = {}
    /\ last = [op |-> "init"]

NextRequests ==
    \/ BeginUpload
    \/ \E d \in 1..MaxDocs : InsertChunk(d)
    \/ \E d \in 1..MaxDocs : EmbeddingsSettle(d)
    \/ \E d \in 1..MaxDocs : UpdateEmbedding(d)
    \/ BeginSearch
    \/ QueryEmbeddingSettles

\* storage answers every statement it is sent, so the inserts and the updates of a
\* request in flight go on; nothing in the code makes the provider answer, and there
\* is no timer beside the call
SpecRequests ==
    /\ InitRequests
    /\ [][NextRequests]_vars
    /\ \A d \in 1..MaxDocs : WF_vars(InsertChunk(d)) /\ WF_vars(UpdateEmbedding(d))


\* C24: every embedding call is bounded in time, so an upload and a search that wait
\* for the provider are answered in the end, whether or not the provider answers
C24_RequestsComplete ==
    /\ \A d \in 1..MaxDocs : InFlight(d) ~> ~InFlight(d)
    /\ SearchInFlight ~> ~SearchInFlight

\* the chunk_index values of every document are 0..n-1, each once
ChunkIndexesContiguous ==
    \A d \in 1..bDocuments :
        /\ {document_chunks[i].chunk_index : i \in ChunksOf(d)}
             = 0..(Cardinality(ChunksOf(d)) - 1)
        /\ \A i, j \in ChunksOf(d) :
              document_chunks[i].chunk_index = document_chunks[j].chunk_index => i = j

\* the chunks of two documents were inserted in turns
ChunkIndexesInterleaved ==
    \E i, j, k \in 1..Len(document_chunks) :
        /\ i < j /\ j < k
        /\ document_chunks[i].document_id = document_chunks[k].document_id
        /\ document_chunks[i].document_id # document_chunks[j].document_id

\* C28: in every state of storage, with stores that failed, stores that still run
\* and chunks of several documents inserted in turns, the chunk_index values of every
\* document are 0..n-1, and a document whose store has ended, every one of them being
\* stored from a text with a character that is no whitespace, has a chunk
C28_ContiguousAndNonEmpty ==
    /\ ChunkIndexesContiguous
    /\ \A d \in 1..bDocuments : ~InFlight(d) => ChunksOf(d) # {}

\* the uploads alone: storage is written by no other request
NextUploads ==
    \/ BeginUpload
    \/ \E d \in 1..MaxDocs : InsertChunk(d)
    \/ \E d \in 1..MaxDocs : EmbeddingsSettle(d)
    \/ \E d \in 1..MaxDocs : UpdateEmbedding(d)

SpecUploads == InitRequests /\ [][NextUploads]_vars

=============================================================================
